---- MODULE Spec2Model ----
(***************************************************************************)
(* Model of the emergency triage backend (backend/main.py and              *)
(* backend/clinical_scoring.py).                                           *)
(*                                                                         *)
(* Scores are floats in the source.  A finite score is modelled as an      *)
(* integer number of 1/Scale units, so 90.0 is 90 * Scale and the value    *)
(* just below it is 90 * Scale - 1.  The non-finite floats that json.loads *)
(* accepts (NaN, Infinity, -Infinity) are separate values.                 *)
(***************************************************************************)
EXTENDS Integers, Sequences, FiniteSets, TLC

\* ---------------------------------------------------------------- bounds
Scale == 10          \* units per score point
NumRequests == 2     \* requests in flight on the one event loop
MaxAge == 120        \* largest patient_age drawn for the renderer
MaxFileLen == 1      \* largest upload, in bytes
ExtraLen == 3        \* characters of raw text beyond the excerpt limit

\* ------------------------------------------------------ program constants
ExcerptLen == 200

VARIABLES
    mistral_client,  \* "none" or "client" (module-level, main.py:26-28)
    loop,            \* 0 = event loop idle, r = request r holds the thread
    req,             \* per request: position and locals of the coroutine
    emitted,         \* outcome handed to a caller by the step just taken
    fn_in,           \* argument of the pure function under check
    fn_out           \* its result

vars == <<mistral_client, loop, req, emitted, fn_in, fn_out>>

Requests == 1..NumRequests

\* ------------------------------------------------------------ float values
Fin(v) == [k |-> "fin", v |-> v]
NaN == [k |-> "nan", v |-> 0]
PosInf == [k |-> "inf", v |-> 0]
NegInf == [k |-> "-inf", v |-> 0]

\* a < b on floats; every comparison with NaN is false
FloatLt(a, b) ==
    IF a.k = "nan" \/ b.k = "nan" THEN FALSE
    ELSE IF a.k = "-inf" THEN b.k # "-inf"
    ELSE IF a.k = "inf" THEN FALSE
    ELSE IF b.k = "inf" THEN TRUE
    ELSE IF b.k = "-inf" THEN FALSE
    ELSE a.v < b.v

\* Python min(a, b): b if b < a else a;  max(a, b): b if b > a else a
PyMin(a, b) == IF FloatLt(b, a) THEN b ELSE a
PyMax(a, b) == IF FloatLt(a, b) THEN b ELSE a

\* ------------------------------------------------------- clinical_scoring
get_severity_level_from_score_Strict(score_100) ==
    IF score_100 > 90 * Scale THEN <<"Critical", "Immediate">>
    ELSE IF score_100 > 70 * Scale THEN <<"High", "Urgent">>
    ELSE IF score_100 > 50 * Scale THEN <<"Moderate", "Moderate">>
    ELSE IF score_100 > 30 * Scale THEN <<"Low", "Low">>
    ELSE <<"Non-urgent", "Non-urgent">>
get_severity_level_from_score(score_100) ==
    IF score_100 >= 90 * Scale THEN <<"Critical", "Immediate">>
    ELSE IF score_100 >= 70 * Scale THEN <<"High", "Urgent">>
    ELSE IF score_100 >= 50 * Scale THEN <<"Moderate", "Moderate">>
    ELSE IF score_100 >= 30 * Scale THEN <<"Low", "Low">>
    ELSE <<"Non-urgent", "Non-urgent">>

\* lines 89-117
get_triage_category(score_100) ==
    IF score_100 >= 90 * Scale
    THEN [category |-> "Urgence vitale", urgency |-> "Immediate",
          action |-> "Réanimation immédiate, appel SAMU/réanimation"]
    ELSE IF score_100 >= 70 * Scale
    THEN [category |-> "Urgence majeure", urgency |-> "Urgent",
          action |-> "Hospitalisation en unité de soins continus"]
    ELSE IF score_100 >= 50 * Scale
    THEN [category |-> "Urgence relative", urgency |-> "Moderate",
          action |-> "Consultation en urgence (< 2h)"]
    ELSE [category |-> "Non urgent", urgency |-> "Low",
          action |-> "Consultation programmée ou retour à domicile"]

\* sign registry, one table per physiological system (lines 6-62)
CARDIOVASCULAR_SIGNS ==
    {<<"arrêt_cardiaque", 100>>, <<"choc_cardiogénique", 95>>,
     <<"tachycardie_extrême", 90>>, <<"bradycardie_sévère", 85>>,
     <<"cyanose_centrale", 80>>, <<"pouls_filants", 75>>,
     <<"douleur_thoracique_dyspnée", 70>>, <<"hypertension_sévère", 65>>,
     <<"souffle_cardiaque_pathologique", 60>>, <<"oedème_poumon_aigu", 85>>}
RESPIRATORY_SIGNS ==
    {<<"apnée", 95>>, <<"détresse_respiratoire_sévère", 90>>,
     <<"tirage_intercostal", 85>>, <<"cyanose", 80>>,
     <<"stridor_inspiratoire", 75>>, <<"toux_coqueluchoïde", 70>>,
     <<"wheezing_diffus", 65>>, <<"fréquence_respiratoire_élevée", 60>>,
     <<"expectoration_sanglante", 80>>}
NEUROLOGICAL_SIGNS ==
    {<<"coma", 100>>, <<"convulsions_prolongées", 95>>, <<"raideur_nuque", 90>>,
     <<"déficit_moteur_brutal", 85>>, <<"céphalées_vomissements_jet", 80>>,
     <<"troubles_conscience", 75>>, <<"mouvements_anormaux", 70>>}
DIGESTIVE_SIGNS ==
    {<<"hémorragie_digestive_haute", 90>>, <<"occlusion_intestinale", 85>>,
     <<"péritonite", 80>>, <<"déshydratation_sévère", 75>>,
     <<"diarrhée_sanglante", 70>>}
GENERAL_SIGNS ==
    {<<"marbrures", 85>>, <<"refus_boire_alimentaire", 90>>,
     <<"fièvre_élevée", 80>>, <<"hypothermie", 75>>, <<"signes_choc", 90>>,
     <<"oligurie", 80>>, <<"altération_état_général", 70>>}

Systems == {"cardiovascular", "respiratory", "neurological", "digestive", "general"}
SignsOf(system) ==
    CASE system = "cardiovascular" -> CARDIOVASCULAR_SIGNS
      [] system = "respiratory" -> RESPIRATORY_SIGNS
      [] system = "neurological" -> NEUROLOGICAL_SIGNS
      [] system = "digestive" -> DIGESTIVE_SIGNS
      [] system = "general" -> GENERAL_SIGNS

\* lines 65-71: the merged lookup table
ALL_CLINICAL_SIGNS == UNION {SignsOf(system) : system \in Systems}

\* lines 131-172: the sign lines of the guidelines text, each under the
\* heading of its section, named here by the registry key of the sign
GuidelineLines(system) ==
    CASE system = "cardiovascular" ->
            {<<"arrêt_cardiaque", 100>>, <<"choc_cardiogénique", 95>>,
             <<"tachycardie_extrême", 90>>, <<"bradycardie_sévère", 85>>,
             <<"cyanose_centrale", 80>>, <<"pouls_filants", 75>>,
             <<"douleur_thoracique_dyspnée", 70>>, <<"hypertension_sévère", 65>>,
             <<"oedème_poumon_aigu", 85>>}
      [] system = "respiratory" ->
            {<<"apnée", 95>>, <<"détresse_respiratoire_sévère", 90>>,
             <<"tirage_intercostal", 85>>, <<"cyanose", 80>>,
             <<"stridor_inspiratoire", 75>>, <<"expectoration_sanglante", 80>>,
             <<"wheezing_diffus", 65>>, <<"fréquence_respiratoire_élevée", 60>>}
      [] system = "neurological" ->
            {<<"coma", 100>>, <<"convulsions_prolongées", 95>>,
             <<"raideur_nuque", 90>>, <<"déficit_moteur_brutal", 85>>,
             <<"céphalées_vomissements_jet", 80>>, <<"troubles_conscience", 75>>}
      [] system = "digestive" ->
            {<<"hémorragie_digestive_haute", 90>>, <<"occlusion_intestinale", 85>>,
             <<"péritonite", 80>>, <<"déshydratation_sévère", 75>>,
             <<"diarrhée_sanglante", 70>>}
      [] system = "general" ->
            {<<"refus_boire_alimentaire", 90>>, <<"marbrures", 85>>,
             <<"signes_choc", 90>>, <<"fièvre_élevée", 80>>, <<"oligurie", 80>>}

\* patient_age: present = FALSE is None
AgeNone == [present |-> FALSE, v |-> 0]
Ages == {AgeNone} \cup {[present |-> TRUE, v |-> a] : a \in 0..MaxAge}

\* line 123: "patient_age and patient_age < 18" (0 is falsy)
AgeGroup(patient_age) ==
    IF patient_age.present /\ patient_age.v # 0 /\ patient_age.v < 18
    THEN "pédiatrique" ELSE "adulte"

get_clinical_scoring_guidelines(patient_age) ==
    [f |-> "get_clinical_scoring_guidelines",
     age_group |-> AgeGroup(patient_age),
     lines |-> [system \in Systems |-> GuidelineLines(system)]]

\* ------------------------------------------------------------------ inputs
\* uploads: the declared media type and the number of bytes
ContentTypes == {"image/png", "video/mp4", "audio/mpeg", "application/pdf", ""}
Files == [content_type : ContentTypes, size : 0..MaxFileLen]

\* kw in content_type, for the three keywords the handler looks for
Contains(kw, content_type) ==
    \/ kw = "image" /\ content_type = "image/png"
    \/ kw = "video" /\ content_type = "video/mp4"
    \/ kw = "audio" /\ content_type = "audio/mpeg"

\* length of base64.b64encode(file_content)
B64Len(n) == 4 * ((n + 2) \div 3)

\* candidate severities the collaborator can put in its payload
ScoreSamples ==
    {0 - Scale, 0, 30 * Scale - 1, 30 * Scale, 50 * Scale - 1, 50 * Scale,
     70 * Scale - 1, 70 * Scale, 90 * Scale - 1, 90 * Scale, 100 * Scale,
     100 * Scale + 1}
SevAbsent == [k |-> "absent", f |-> NaN]
SevCands ==
    {SevAbsent, [k |-> "null", f |-> NaN], [k |-> "badstr", f |-> NaN],
     [k |-> "other", f |-> NaN], [k |-> "bool", f |-> Fin(Scale)],
     [k |-> "str", f |-> Fin(95 * Scale)],
     [k |-> "num", f |-> NaN], [k |-> "num", f |-> PosInf],
     [k |-> "num", f |-> NegInf]}
    \cup {[k |-> "num", f |-> Fin(v)] : v \in ScoreSamples}

\* "" is what .get(..., "") yields for an omitted label
LevelCands == {"Critical", "High", "Moderate", "Low", "Non-urgent", ""}
UrgencyCands == {"Immediate", "Urgent", "Moderate", "Low", "Non-urgent", ""}

TextLens == {0, 1, ExcerptLen} \cup {ExcerptLen + i : i \in 1..ExtraLen}

\* what mistral_client.chat.complete can do: raise, return a message without
\* content, or return a text (optionally fenced) whose body is not JSON,
\* JSON that is not an object, or a JSON object
NoResp == [k |-> "none", fence |-> "none", body |-> "none", len |-> 0,
           severity_score |-> SevAbsent, severity_level |-> "", urgency |-> ""]
Fences == {"none", "json", "bare"}
Responses ==
    {[NoResp EXCEPT !.k = "raise"], [NoResp EXCEPT !.k = "nocontent"]}
    \cup {[NoResp EXCEPT !.k = "text", !.fence = fc, !.body = "notjson", !.len = n] :
            fc \in Fences, n \in TextLens}
    \cup {[NoResp EXCEPT !.k = "text", !.fence = fc, !.body = "nonobject", !.len = 2] :
            fc \in Fences}
    \cup {[NoResp EXCEPT !.k = "text", !.fence = fc, !.body = "object", !.len = 2,
                         !.severity_score = s, !.severity_level = l, !.urgency = u] :
            fc \in Fences, s \in SevCands, l \in LevelCands, u \in UrgencyCands}

\* ----------------------------------------------------------------- main.py
determine_model(input_type) ==
    IF input_type = "image" THEN "pixtral-large-latest"
    ELSE IF input_type \in {"video", "audio"} THEN "voxtral-large-latest"
    ELSE "mistral-large-latest"

\* lines 82-97: input_type from the declared media type of the upload
InputTypeOf(has_file, file) ==
    IF ~has_file THEN "text"
    ELSE IF Contains("image", file.content_type) THEN "image"
    ELSE IF Contains("video", file.content_type) THEN "video"
    ELSE IF Contains("audio", file.content_type) THEN "audio"
    ELSE "text"

\* lines 111-247: the request that is built
BuildMessages(input_type, b64len) ==
    IF input_type = "image" /\ b64len > 0
    THEN <<[role |-> "user", prompt |-> "image"]>>
    ELSE IF input_type \in {"video", "audio"} /\ b64len > 0
    THEN <<[role |-> "user", prompt |-> "av"]>>
    ELSE <<[role |-> "system", prompt |-> "text"], [role |-> "user", prompt |-> "text"]>>

\* lines 251-270: the model passed to chat.complete
CallModel(input_type, b64len, model) ==
    IF input_type = "image" /\ b64len > 0 THEN model
    ELSE IF input_type \in {"video", "audio"} THEN "mistral-large-latest"
    ELSE model

\* float(score), lines 285-286: ok = FALSE when float() raises
ToFloat(c) ==
    IF c.k \in {"num", "str", "bool"} THEN [ok |-> TRUE, f |-> c.f]
    ELSE [ok |-> FALSE, f |-> NaN]

\* max(0.0, min(100.0, x))
Clamp_NoUpper(x) == PyMax(Fin(0), x)
Clamp(x) == PyMax(Fin(0), PyMin(Fin(100 * Scale), x))

\* lines 289-305: the labels emitted for a score and the proposed labels
ReconcileLabels_LevelOnly(score, ai_level, ai_urgency) ==
    LET auth == get_severity_level_from_score(score) IN
    IF ai_level = auth[1] THEN <<ai_level, ai_urgency>> ELSE auth
ReconcileLabels(score, ai_level, ai_urgency) ==
    LET auth == get_severity_level_from_score(score) IN
    IF score >= 90 * Scale /\ ai_level = "Critical" /\ ai_urgency = "Immediate"
    THEN <<ai_level, ai_urgency>>
    ELSE IF score >= 70 * Scale /\ score < 90 * Scale /\ ai_level = "High" /\ ai_urgency = "Urgent"
    THEN <<ai_level, ai_urgency>>
    ELSE IF score >= 50 * Scale /\ score < 70 * Scale /\ ai_level = "Moderate" /\ ai_urgency = "Moderate"
    THEN <<ai_level, ai_urgency>>
    ELSE IF score >= 30 * Scale /\ score < 50 * Scale /\ ai_level = "Low" /\ ai_urgency = "Low"
    THEN <<ai_level, ai_urgency>>
    ELSE IF score < 30 * Scale /\ ai_level = "Non-urgent" /\ ai_urgency = "Non-urgent"
    THEN <<ai_level, ai_urgency>>
    ELSE auth

\* outcomes handed to the caller
NoOutcome ==
    [kind |-> "none", path |-> "none", status_code |-> 0, detail |-> "",
     severity_score |-> 0, severity_level |-> "", urgency |-> "",
     triage_assessment |-> "", reasoning |-> [k |-> "none", len |-> 0],
     model_used |-> ""]

\* lines 71-79
DegradedResponse_TextModel ==
    [NoOutcome EXCEPT !.kind = "TriageResponse", !.path = "degraded",
        !.status_code = 200,
        !.severity_score = 50 * Scale, !.severity_level = "Moderate",
        !.urgency = "Moderate", !.triage_assessment = "not configured",
        !.reasoning = [k |-> "fixed", len |-> Len("System awaiting API key configuration")],
        !.model_used = "mistral-large-latest"]
DegradedResponse ==
    [NoOutcome EXCEPT !.kind = "TriageResponse", !.path = "degraded",
        !.status_code = 200,
        !.severity_score = 50 * Scale, !.severity_level = "Moderate",
        !.urgency = "Moderate", !.triage_assessment = "not configured",
        !.reasoning = [k |-> "fixed", len |-> Len("System awaiting API key configuration")],
        !.model_used = "none"]

\* lines 316-325
UnparseableResponse(model, len) ==
    [NoOutcome EXCEPT !.kind = "TriageResponse", !.path = "unparseable",
        !.status_code = 200,
        !.severity_score = 50 * Scale, !.severity_level = "Moderate",
        !.urgency = "Moderate", !.triage_assessment = "unable to parse",
        !.reasoning = IF len > 0
                      THEN [k |-> "excerpt", len |-> IF len < ExcerptLen THEN len ELSE ExcerptLen]
                      ELSE [k |-> "fixed", len |-> Len("Error parsing response")],
        !.model_used = model]

\* lines 327-331
ServiceError ==
    [NoOutcome EXCEPT !.kind = "HTTPException", !.path = "error",
        !.status_code = 500, !.detail = "Error calling Mistral API"]

\* line 285: triage_data.get("severity_score", 50.0)
GetSeverityScore_Zero(sev) ==
    IF sev.k = "absent" THEN [k |-> "num", f |-> Fin(0)] ELSE sev
GetSeverityScore(sev) ==
    IF sev.k = "absent" THEN [k |-> "num", f |-> Fin(50 * Scale)] ELSE sev

\* lines 282-315
ReconciledResponse(model, resp) ==
    LET conv == ToFloat(GetSeverityScore(resp.severity_score))
    IN  IF ~conv.ok THEN ServiceError
        ELSE LET score == Clamp(conv.f).v
                 lu == ReconcileLabels(score, resp.severity_level, resp.urgency)
             IN [NoOutcome EXCEPT !.kind = "TriageResponse", !.path = "reconciled",
                    !.status_code = 200,
                    !.severity_score = score, !.severity_level = lu[1],
                    !.urgency = lu[2], !.triage_assessment = "passthrough",
                    !.reasoning = [k |-> "passthrough", len |-> 0],
                    !.model_used = model]

\* lines 272-331: what the handler makes of the collaborator's answer
ProcessResponse(model, resp) ==
    IF resp.k = "raise" THEN ServiceError
    ELSE IF resp.k = "nocontent" THEN ServiceError
    ELSE IF resp.body = "notjson" THEN UnparseableResponse(model, resp.len)
    ELSE IF resp.body = "nonobject" THEN ServiceError
    ELSE ReconciledResponse(model, resp)

\* -------------------------------------------------------- request handling
NoFile == [content_type |-> "", size |-> 0]
NewReq ==
    [pc |-> "new", has_file |-> FALSE, file |-> NoFile, file_read |-> FALSE,
     input_type |-> "text", b64len |-> 0, model |-> "", messages |-> <<>>,
     call_model |-> "", calls |-> 0]
NoEmit == [rid |-> 0, out |-> NoOutcome, locals |-> NewReq, resp |-> NoResp]
FnIdle == [f |-> "none", level |-> "", urgency |-> ""]

Init ==
    /\ mistral_client \in {"none", "client"}
    /\ loop = 0
    /\ req = [r \in Requests |-> NewReq]
    /\ emitted = NoEmit
    /\ fn_in = 0
    /\ fn_out = FnIdle

\* lines 81-270 after the upload was read (or when there is none): the
\* coroutine runs without awaiting up to and into chat.complete, a
\* synchronous call made on the event-loop thread
EnterCall(r, has_file, file) ==
    LET input_type == InputTypeOf(has_file, file)
        b64len == IF has_file THEN B64Len(file.size) ELSE 0
        model == determine_model(input_type)
    IN  /\ req' = [req EXCEPT ![r] =
                [pc |-> "calling", has_file |-> has_file, file |-> file,
                 file_read |-> has_file, input_type |-> input_type,
                 b64len |-> b64len, model |-> model,
                 messages |-> BuildMessages(input_type, b64len),
                 call_model |-> CallModel(input_type, b64len, model),
                 calls |-> req[r].calls + 1]]
        /\ loop' = r

\* lines 70-79: no client configured
StartDegraded(r) ==
    /\ req[r].pc = "new" /\ loop = 0
    /\ mistral_client = "none"
    /\ \E has_file \in BOOLEAN :
        LET l == [req[r] EXCEPT !.pc = "done", !.has_file = has_file] IN
        /\ req' = [req EXCEPT ![r] = l]
        /\ emitted' = [rid |-> r, out |-> DegradedResponse, locals |-> l, resp |-> NoResp]
    /\ UNCHANGED <<mistral_client, loop, fn_in, fn_out>>

\* lines 86-87: an upload is present, the coroutine suspends on file.read()
StartWithFile(r) ==
    /\ req[r].pc = "new" /\ loop = 0
    /\ mistral_client = "client"
    /\ req' = [req EXCEPT ![r] = [@ EXCEPT !.pc = "reading", !.has_file = TRUE]]
    /\ emitted' = NoEmit
    /\ UNCHANGED <<mistral_client, loop, fn_in, fn_out>>

\* lines 82-99 without upload, then 101-270
StartText(r) ==
    /\ req[r].pc = "new" /\ loop = 0
    /\ mistral_client = "client"
    /\ EnterCall(r, FALSE, NoFile)
    /\ emitted' = NoEmit
    /\ UNCHANGED <<mistral_client, fn_in, fn_out>>

\* lines 87-99 once file.read() has completed, then 101-270
ReadDone(r) ==
    /\ req[r].pc = "reading" /\ loop = 0
    /\ \E file \in Files : EnterCall(r, TRUE, file)
    /\ emitted' = NoEmit
    /\ UNCHANGED <<mistral_client, fn_in, fn_out>>

\* lines 272-331: chat.complete returns or raises, the outcome is produced
CallReturn(r) ==
    /\ req[r].pc = "calling" /\ loop = r
    /\ \E resp \in Responses :
        emitted' = [rid |-> r, out |-> ProcessResponse(req[r].model, resp),
                    locals |-> req[r], resp |-> resp]
    /\ req' = [req EXCEPT ![r] = [NewReq EXCEPT !.pc = "done", !.calls = req[r].calls]]
    /\ loop' = 0
    /\ UNCHANGED <<mistral_client, fn_in, fn_out>>

Step(r) ==
    \/ StartDegraded(r)
    \/ StartWithFile(r)
    \/ StartText(r)
    \/ ReadDone(r)
    \/ CallReturn(r)

Next == \E r \in Requests : Step(r)

Spec == Init /\ [][Next]_vars

\* ------------------------------------------------- the scoring functions
\* the server variables do not move while a pure function is exercised
ServerIdle ==
    /\ mistral_client = "client"
    /\ loop = 0
    /\ req = [r \in Requests |-> NewReq]
    /\ emitted = NoEmit

InitScore ==
    /\ ServerIdle
    /\ fn_in \in 0..(100 * Scale)
    /\ fn_out = FnIdle

Categorize ==
    /\ fn_out = FnIdle
    /\ LET p == get_severity_level_from_score(fn_in) IN
       fn_out' = [f |-> "get_severity_level_from_score", level |-> p[1], urgency |-> p[2]]
    /\ UNCHANGED <<mistral_client, loop, req, emitted, fn_in>>

TriageCategory ==
    /\ fn_out = FnIdle
    /\ LET t == get_triage_category(fn_in) IN
       fn_out' = [f |-> "get_triage_category", category |-> t.category,
                  urgency |-> t.urgency, action |-> t.action]
    /\ UNCHANGED <<mistral_client, loop, req, emitted, fn_in>>

NextScore == Categorize \/ TriageCategory

SpecScore == InitScore /\ [][NextScore]_vars

InitGuide ==
    /\ ServerIdle
    /\ fn_in \in Ages
    /\ fn_out = FnIdle

Render ==
    /\ fn_out = FnIdle
    /\ fn_out' = get_clinical_scoring_guidelines(fn_in)
    /\ UNCHANGED <<mistral_client, loop, req, emitted, fn_in>>

NextGuide == Render

SpecGuide == InitGuide /\ [][NextGuide]_vars

\* ------------------------------------------------------------- properties
Returned == emitted.rid # 0 /\ emitted.out.kind = "TriageResponse"
AfterCall == emitted.rid # 0 /\ emitted.resp.k # "none"

\* C1: in every TriageResponse returned, on the degraded, the unparseable and
\* the reconciled path, (severity_level, urgency) is the pair that
\* get_severity_level_from_score gives for the returned severity_score,
\* whatever score and labels the collaborator proposed.
C1_LabelsFollowBand ==
    Returned =>
        <<emitted.out.severity_level, emitted.out.urgency>>
            = get_severity_level_from_score(emitted.out.severity_score)

\* C1 witness: a reconciled response where the proposed level is the band's
\* level but the proposed urgency is not the band's urgency
C1_Witness ==
    /\ Returned /\ emitted.out.path = "reconciled"
    /\ emitted.resp.severity_level = emitted.out.severity_level
    /\ emitted.resp.urgency # emitted.out.urgency
    /\ emitted.resp.urgency # ""

\* a text the handler obtained that is not the expected structured payload
Malformed(resp) ==
    /\ resp.k = "text"
    /\ \/ resp.body \in {"notjson", "nonobject"}
       \/ resp.body = "object" /\ resp.severity_score.k \in {"null", "badstr", "other"}

\* C2: whenever the collaborator returned a text that cannot be read as the
\* expected payload (not JSON, JSON that is not an object, severity_score
\* null or not a number), the caller gets a TriageResponse 50.0 / Moderate /
\* Moderate with an excerpt of at most 200 characters and the selected
\* model, never an error.
C2_MalformedRecovered ==
    (AfterCall /\ Malformed(emitted.resp)) =>
        /\ emitted.out.kind = "TriageResponse"
        /\ emitted.out.severity_score = 50 * Scale
        /\ emitted.out.severity_level = "Moderate"
        /\ emitted.out.urgency = "Moderate"
        /\ emitted.out.reasoning.len <= ExcerptLen
        /\ emitted.out.model_used = emitted.locals.model

\* C3: without a configured client every request returns 50.0 / Moderate /
\* Moderate / "none"; the upload is not read, no collaborator call is made
\* and the reconciliation step is not executed.
C3_DegradedMode ==
    mistral_client = "none" =>
        /\ loop = 0
        /\ \A r \in Requests :
            /\ req[r].pc \in {"new", "done"}
            /\ ~req[r].file_read /\ req[r].calls = 0
        /\ emitted.rid # 0 =>
            /\ emitted.out.kind = "TriageResponse"
            /\ emitted.out.severity_score = 50 * Scale
            /\ emitted.out.severity_level = "Moderate"
            /\ emitted.out.urgency = "Moderate"
            /\ emitted.out.model_used = "none"
            /\ emitted.out.path = "degraded"
            /\ ~emitted.locals.file_read
            /\ emitted.locals.calls = 0
            /\ emitted.resp = NoResp

\* C3 witness: a degraded response to a request that carried an upload
C3_Witness ==
    /\ mistral_client = "none" /\ emitted.rid # 0
    /\ emitted.locals.has_file
    /\ emitted.out.path = "degraded"

\* the band table of the specification, each band with both its edges
BandTable ==
    {[lo |-> 90 * Scale, hi |-> 100 * Scale + 1, pair |-> <<"Critical", "Immediate">>],
     [lo |-> 70 * Scale, hi |-> 90 * Scale, pair |-> <<"High", "Urgent">>],
     [lo |-> 50 * Scale, hi |-> 70 * Scale, pair |-> <<"Moderate", "Moderate">>],
     [lo |-> 30 * Scale, hi |-> 50 * Scale, pair |-> <<"Low", "Low">>],
     [lo |-> 0, hi |-> 30 * Scale, pair |-> <<"Non-urgent", "Non-urgent">>]}
BandsOf(m) == {b \in BandTable : b.lo <= m /\ m < b.hi}

\* C4: for every magnitude in [0,100], get_severity_level_from_score returns
\* the pair of the one band of the table that contains the magnitude,
\* boundary values and the values just below them included.
C4_BandTable ==
    fn_out.f = "get_severity_level_from_score" =>
        /\ Cardinality(BandsOf(fn_in)) = 1
        /\ \A b \in BandsOf(fn_in) : <<fn_out.level, fn_out.urgency>> = b.pair

\* C4 witness: the mapper applied to a lower band edge
C4_Witness ==
    /\ fn_out.f = "get_severity_level_from_score"
    /\ fn_in = 90 * Scale
    /\ fn_out.level = "Critical"

\* C5: when the parsed payload has no severity_score, the handler substitutes
\* 50.0 and returns (Moderate, Moderate) for any proposed labels, and the
\* request does not fail.
C5_AbsentSeverityDefault ==
    (AfterCall /\ emitted.resp.body = "object"
        /\ emitted.resp.severity_score.k = "absent") =>
        /\ emitted.out.kind = "TriageResponse"
        /\ emitted.out.path = "reconciled"
        /\ emitted.out.severity_score = 50 * Scale
        /\ emitted.out.severity_level = "Moderate"
        /\ emitted.out.urgency = "Moderate"

\* C5 witness: no severity_score, proposed labels of another band
C5_Witness ==
    /\ AfterCall /\ emitted.resp.body = "object"
    /\ emitted.resp.severity_score.k = "absent"
    /\ emitted.resp.severity_level = "Critical"
    /\ emitted.resp.urgency = "Immediate"
    /\ emitted.out.kind = "TriageResponse"

\* the candidate severity clamped into [0,100], stated case by case
ClampedCandidate(f) ==
    IF f.k = "inf" THEN 100 * Scale
    ELSE IF f.k = "-inf" THEN 0
    ELSE IF f.v < 0 THEN 0
    ELSE IF f.v > 100 * Scale THEN 100 * Scale
    ELSE f.v

\* C6: on the reconciled path the emitted severity_score is the candidate
\* clamped into [0,100] (itself in range, 0 below, 100 above), whatever the
\* labels, and every emitted severity_score lies in [0,100].
C6_ScoreClamped ==
    Returned =>
        /\ 0 <= emitted.out.severity_score
        /\ emitted.out.severity_score <= 100 * Scale
        /\ (emitted.out.path = "reconciled"
              /\ emitted.resp.severity_score.k \in {"num", "str", "bool"}
              /\ emitted.resp.severity_score.f.k # "nan") =>
            emitted.out.severity_score = ClampedCandidate(emitted.resp.severity_score.f)

\* C6 witness: a candidate above 100 whose proposed labels were kept
C6_Witness ==
    /\ Returned /\ emitted.out.path = "reconciled"
    /\ emitted.resp.severity_score.k = "num"
    /\ emitted.resp.severity_score.f.k = "fin"
    /\ emitted.resp.severity_score.f.v > 100 * Scale
    /\ emitted.resp.severity_level = "Critical"
    /\ emitted.resp.urgency = "Immediate"
    /\ emitted.out.severity_score = 100 * Scale

\* C7: a request makes at most one collaborator call; when the call fails
\* there is no second call and the caller gets an explicit service error,
\* and that error outcome is not the outcome of a response that was obtained
\* but could not be parsed.
C7_SingleCallErrorDistinct ==
    /\ \A r \in Requests : req[r].calls <= 1
    /\ (AfterCall /\ emitted.resp.k = "raise") =>
        /\ emitted.out.kind = "HTTPException"
        /\ emitted.locals.calls = 1
        /\ req[emitted.rid].pc = "done"
    /\ (AfterCall /\ Malformed(emitted.resp)) => emitted.out # ServiceError

\* C8: while one request is in its collaborator call, every other request
\* that is in flight can take its next step.
C8_CallDoesNotBlock ==
    \A r, s \in Requests :
        (r # s /\ req[r].pc = "calling" /\ req[s].pc \in {"new", "reading"})
            => ENABLED Step(s)

\* pathway the declared media type selects, and what belongs to it
Pathway(has_file, content_type) ==
    IF has_file /\ content_type = "image/png" THEN "image"
    ELSE IF has_file /\ content_type \in {"video/mp4", "audio/mpeg"} THEN "av"
    ELSE "text"
PathwayModel(pw) ==
    CASE pw = "image" -> "pixtral-large-latest"
      [] pw = "av" -> "voxtral-large-latest"
      [] pw = "text" -> "mistral-large-latest"

\* C9: an image type selects the image pathway, a video or audio type the
\* audio-video pathway, no upload or an unrecognized or absent type the text
\* pathway; the request built and the model_used reported both belong to the
\* selected pathway, also when the upload is empty.
C9_PathwayRouting ==
    AfterCall =>
        LET pw == Pathway(emitted.locals.has_file, emitted.locals.file.content_type) IN
        /\ \A i \in 1..Len(emitted.locals.messages) :
              emitted.locals.messages[i].prompt = pw
        /\ emitted.locals.model = PathwayModel(pw)
        /\ Returned => emitted.out.model_used = PathwayModel(pw)

\* C10: the guidelines text lists every sign of the registry under its own
\* physiological system with the weight the registry holds for it.
C10_EverySignListed ==
    fn_out.f = "get_clinical_scoring_guidelines" =>
        \A e \in ALL_CLINICAL_SIGNS :
            \E system \in Systems :
                e \in SignsOf(system) /\ e \in fn_out.lines[system]

\* C11: the rendering is labelled pediatric exactly when the age is present
\* and below 18, for every integer age including 0, and adult when the age
\* is absent or 18 and above.
C11_PediatricBelow18 ==
    fn_out.f = "get_clinical_scoring_guidelines" =>
        /\ (fn_in.present /\ fn_in.v < 18) => fn_out.age_group = "pédiatrique"
        /\ ~(fn_in.present /\ fn_in.v < 18) => fn_out.age_group = "adulte"

\* C12: in every TriageResponse returned after a collaborator call, model_used
\* is the model identifier that was passed to that call, for the text,
\* image, video and audio input types.
C12_ModelUsedIsCalledModel ==
    (Returned /\ AfterCall) =>
        emitted.out.model_used = emitted.locals.call_model

\* C13: for every score in [0,100] the urgency of get_triage_category is the
\* urgency of get_severity_level_from_score, and get_triage_category gives
\* the same result for exactly the scores of the same band of the five
\* (thresholds 30, 50, 70, 90), so each band has its own action.
C13_MappersAgree ==
    fn_out.f = "get_triage_category" =>
        /\ fn_out.urgency = get_severity_level_from_score(fn_in)[2]
        /\ \A m \in 0..(100 * Scale) :
              (get_triage_category(m).action = fn_out.action)
                  <=> (BandsOf(m) = BandsOf(fn_in))

====
